---- MODULE Spec2Model ----
(***************************************************************************)
(* Model of the text-to-structure reconstruction routine of server.js:     *)
(* convertTextToHTML and its helpers isHeader, getHeaderLevel, isListItem  *)
(* and escapeHtml.                                                         *)
(*                                                                         *)
(* A string is a sequence of characters, each character a one-token        *)
(* string; characters outside ASCII are named by their code point          *)
(* ("U+2022" is the bullet).  The markup under construction is the         *)
(* sequence of tokens appended to it: structural tags ("<p>", "</ul>"),    *)
(* character references ("&amp;") and plain characters.                    *)
(***************************************************************************)
EXTENDS Integers, Sequences, FiniteSets, TLC

(***************************************************************************)
(* Bounds of the model.                                                    *)
(***************************************************************************)
\* largest number of raw lines (fields between line breaks) of an input
MaxLines == 3

(***************************************************************************)
(* Character classes of the regular expressions.                           *)
(***************************************************************************)
UpperSeq == <<"A", "B", "C", "D", "E", "F", "G", "H", "I", "J", "K", "L", "M",
              "N", "O", "P", "Q", "R", "S", "T", "U", "V", "W", "X", "Y", "Z">>

LowerSeq == <<"a", "b", "c", "d", "e", "f", "g", "h", "i", "j", "k", "l", "m",
              "n", "o", "p", "q", "r", "s", "t", "u", "v", "w", "x", "y", "z">>

\* [A-Z]
Upper == {UpperSeq[k] : k \in 1..Len(UpperSeq)}

\* [a-z]
Lower == {LowerSeq[k] : k \in 1..Len(LowerSeq)}

\* \d
Digit == {"0", "1", "2", "3", "4", "5", "6", "7", "8", "9"}

\* \s, and the characters String.prototype.trim removes
WhiteSpace == {" ", "\t", "\n"}

\* [IVX]
RomanDigit == {"I", "V", "X"}

\* The class written between [ and ] in the bullet patterns, \s apart.  The
\* source file holds the code points U+201A, U+00C4 and U+00A2 there (the
\* three bytes of U+2022 read one by one), then \- and \*.
BulletClass == {"U+201A", "U+00C4", "U+00A2", "-", "*"}

\* the bullet glyph itself
Bullet == "U+2022"

\* case folding of the /i flag
ToLower(c) ==
    IF c \in Upper
    THEN LowerSeq[CHOOSE k \in 1..Len(UpperSeq) : UpperSeq[k] = c]
    ELSE c

(***************************************************************************)
(* String primitives.                                                      *)
(***************************************************************************)
\* number of characters of s from position from on that belong to class:
\* what a greedy class+ or class* consumes there
Span(s, from, class) ==
    LET stop == CHOOSE k \in from..(Len(s) + 1) :
                    /\ (k = Len(s) + 1 \/ s[k] \notin class)
                    /\ \A m \in from..(k - 1) : s[m] \in class
    IN  stop - from

RECURSIVE TrimStart(_)
\* s without its leading white space
TrimStart(s) ==
    IF s = <<>> \/ s[1] \notin WhiteSpace THEN s ELSE TrimStart(Tail(s))

RECURSIVE TrimEnd(_)
\* s without its trailing white space
TrimEnd(s) ==
    IF s = <<>> \/ s[Len(s)] \notin WhiteSpace THEN s
    ELSE TrimEnd(SubSeq(s, 1, Len(s) - 1))

\* s.trimStart() in the place of s.trim()
Trim_StartOnly(s) == TrimStart(s)

\* s.trim()
Trim(s) == TrimEnd(TrimStart(s))

\* text.split('\n')
Split(t) ==
    LET nl    == {k \in 1..Len(t) : t[k] = "\n"}
        nth(j) == CHOOSE k \in nl : Cardinality({m \in nl : m < k}) = j - 1
        n     == Cardinality(nl) + 1
        lo(j) == IF j = 1 THEN 1 ELSE nth(j - 1) + 1
        hi(j) == IF j = n THEN Len(t) ELSE nth(j) - 1
    IN  [j \in 1..n |-> SubSeq(t, lo(j), hi(j))]

\* the prefix of s matches the literal word, letter case ignored
PrefixNoCase(s, word) ==
    /\ Len(s) >= Len(word)
    /\ \A k \in 1..Len(word) : ToLower(s[k]) = word[k]

(***************************************************************************)
(* escapeHtml                                                              *)
(***************************************************************************)
\* escapeHtml whose map has no entry for the apostrophe
EscapeChar_NoApostrophe(c) ==
    CASE c = "&"  -> "&amp;"
      [] c = "<"  -> "&lt;"
      [] c = ">"  -> "&gt;"
      [] c = "\"" -> "&quot;"
      [] OTHER    -> c

\* the map of escapeHtml
EscapeChar(c) ==
    CASE c = "&"  -> "&amp;"
      [] c = "<"  -> "&lt;"
      [] c = ">"  -> "&gt;"
      [] c = "\"" -> "&quot;"
      [] c = "'"  -> "&#039;"
      [] OTHER    -> c

escapeHtml(s) == [k \in 1..Len(s) |-> EscapeChar(s[k])]

(***************************************************************************)
(* The regular expressions of isHeader, getHeaderLevel and isListItem.     *)
(***************************************************************************)
\* the all-capitals pattern written without \s: /^[A-Z][A-Z]+$/
AllCapsPattern_NoSpace(s) ==
    /\ Len(s) >= 2
    /\ \A k \in 1..Len(s) : s[k] \in Upper

\* /^[A-Z][A-Z\s]+$/
AllCapsPattern(s) ==
    /\ Len(s) >= 2
    /\ s[1] \in Upper
    /\ \A k \in 2..Len(s) : s[k] \in Upper \cup WhiteSpace

\* /^[A-Z][a-z]+(\s+[A-Z][a-z]+)*$/
TitleCasePattern(s) ==
    /\ Len(s) >= 2
    /\ s[1] \in Upper
    /\ s[Len(s)] \in Lower
    /\ \A k \in 1..Len(s) :
          \/ /\ s[k] \in Upper
             /\ k = 1 \/ s[k - 1] \in WhiteSpace
             /\ k < Len(s) /\ s[k + 1] \in Lower
          \/ /\ s[k] \in Lower
             /\ k > 1 /\ s[k - 1] \in Upper \cup Lower
          \/ /\ s[k] \in WhiteSpace
             /\ k > 1 /\ s[k - 1] \in Lower \cup WhiteSpace
             /\ k < Len(s) /\ s[k + 1] \in Upper \cup WhiteSpace

\* /^class+\.\s+[A-Z]/ : the shape shared by the numbered and Roman patterns
MarkerThenCapital(s, class) ==
    LET d == Span(s, 1, class)
        w == Span(s, d + 2, WhiteSpace)
    IN  /\ d >= 1
        /\ Len(s) >= d + 1 /\ s[d + 1] = "."
        /\ w >= 1
        /\ Len(s) >= d + w + 2 /\ s[d + w + 2] \in Upper

\* /^\d+\.\s+[A-Z]/
NumberedPattern(s) == MarkerThenCapital(s, Digit)

\* /^[IVX]+\.\s+[A-Z]/
RomanPattern(s) == MarkerThenCapital(s, RomanDigit)

\* /^word\s+\d+/i : the shape shared by the Chapter and Section patterns
WordThenNumber(s, word) ==
    LET w == Span(s, Len(word) + 1, WhiteSpace)
    IN  /\ PrefixNoCase(s, word)
        /\ w >= 1
        /\ Len(s) >= Len(word) + w + 1 /\ s[Len(word) + w + 1] \in Digit

\* /^Chapter\s+\d+/i
ChapterPattern(s) == WordThenNumber(s, <<"c", "h", "a", "p", "t", "e", "r">>)

\* /^Section\s+\d+/i
SectionPattern(s) == WordThenNumber(s, <<"s", "e", "c", "t", "i", "o", "n">>)

\* /^[\s]*[<bullet class>]\s+/
BulletItemPattern(s) ==
    LET z == Span(s, 1, WhiteSpace)
    IN  /\ Len(s) >= z + 2
        /\ s[z + 1] \in BulletClass
        /\ s[z + 2] \in WhiteSpace

\* /^[\s]*\d+\.\s+/
NumberedItemPattern(s) ==
    LET z == Span(s, 1, WhiteSpace)
        d == Span(s, z + 1, Digit)
    IN  /\ d >= 1
        /\ Len(s) >= z + d + 2
        /\ s[z + d + 1] = "."
        /\ s[z + d + 2] \in WhiteSpace

\* /^[\s]*[a-z]\.\s+/
LetteredItemPattern(s) ==
    LET z == Span(s, 1, WhiteSpace)
    IN  /\ Len(s) >= z + 3
        /\ s[z + 1] \in Lower
        /\ s[z + 2] = "."
        /\ s[z + 3] \in WhiteSpace

(***************************************************************************)
(* isHeader, getHeaderLevel, isListItem                                    *)
(***************************************************************************)
\* a header is at most this long (isHeader's first test)
HeaderMaxLen == 100

\* headerPatterns without the numbered-section pattern
MatchesHeaderPattern_NoNumbered(line) ==
    \/ AllCapsPattern(line)
    \/ TitleCasePattern(line)
    \/ RomanPattern(line)
    \/ ChapterPattern(line)
    \/ SectionPattern(line)

\* headerPatterns.some(pattern => pattern.test(line))
MatchesHeaderPattern(line) ==
    \/ AllCapsPattern(line)
    \/ TitleCasePattern(line)
    \/ NumberedPattern(line)
    \/ RomanPattern(line)
    \/ ChapterPattern(line)
    \/ SectionPattern(line)

\* isHeader without its first test, the length gate
isHeader_NoLengthGate(line, allLines, currentIndex) ==
    IF /\ currentIndex < Len(allLines) - 1
       /\ Len(Trim(allLines[currentIndex + 2])) > Len(line) * 2
    THEN TRUE
    ELSE MatchesHeaderPattern(line)

\* isHeader whose density test is >= instead of >
isHeader_DensityAtLeast(line, allLines, currentIndex) ==
    IF Len(line) > HeaderMaxLen THEN FALSE
    ELSE IF /\ currentIndex < Len(allLines) - 1
            /\ Len(Trim(allLines[currentIndex + 2])) >= Len(line) * 2
         THEN TRUE
         ELSE MatchesHeaderPattern(line)

\* isHeader whose density test is against the next line's length alone
isHeader_DensityNotDoubled(line, allLines, currentIndex) ==
    IF Len(line) > HeaderMaxLen THEN FALSE
    ELSE IF /\ currentIndex < Len(allLines) - 1
            /\ Len(Trim(allLines[currentIndex + 2])) > Len(line)
         THEN TRUE
         ELSE MatchesHeaderPattern(line)

\* isHeader that consults the patterns only when a next line exists
isHeader_PatternsNeedNextLine(line, allLines, currentIndex) ==
    IF Len(line) > HeaderMaxLen THEN FALSE
    ELSE IF currentIndex < Len(allLines) - 1
         THEN \/ Len(Trim(allLines[currentIndex + 2])) > Len(line) * 2
              \/ MatchesHeaderPattern(line)
         ELSE FALSE

\* the density test against every following line
isHeader_AnyFollowingLine(line, allLines, currentIndex) ==
    IF Len(line) > HeaderMaxLen THEN FALSE
    ELSE IF \E m \in (currentIndex + 2)..Len(allLines) :
                Len(Trim(allLines[m])) > Len(line) * 2
         THEN TRUE
         ELSE MatchesHeaderPattern(line)

\* isHeader(line, allLines, currentIndex); currentIndex counts from 0, so
\* allLines[currentIndex + 1] of the source is allLines[currentIndex + 2] here
isHeader(line, allLines, currentIndex) ==
    IF Len(line) > HeaderMaxLen THEN FALSE
    ELSE IF /\ currentIndex < Len(allLines) - 1
            /\ Len(Trim(allLines[currentIndex + 2])) > Len(line) * 2
         THEN TRUE
         ELSE MatchesHeaderPattern(line)

\* the levels without the Chapter test
getHeaderLevel_NoChapter(line) ==
    IF AllCapsPattern(line) THEN 1
    ELSE IF NumberedPattern(line) THEN 2
    ELSE IF RomanPattern(line) THEN 2
    ELSE IF SectionPattern(line) THEN 2
    ELSE 3

\* the levels with 2 as the default
getHeaderLevel_DefaultTwo(line) ==
    IF AllCapsPattern(line) THEN 1
    ELSE IF NumberedPattern(line) THEN 2
    ELSE IF RomanPattern(line) THEN 2
    ELSE IF ChapterPattern(line) THEN 1
    ELSE IF SectionPattern(line) THEN 2
    ELSE 2

\* getHeaderLevel(line)
getHeaderLevel(line) ==
    IF AllCapsPattern(line) THEN 1
    ELSE IF NumberedPattern(line) THEN 2
    ELSE IF RomanPattern(line) THEN 2
    ELSE IF ChapterPattern(line) THEN 1
    ELSE IF SectionPattern(line) THEN 2
    ELSE 3

\* isListItem(line)
isListItem(line) ==
    \/ BulletItemPattern(line)
    \/ NumberedItemPattern(line)
    \/ LetteredItemPattern(line)

\* line.replace(/^[\s<bullet class>]+/, '').trim()
StripMarker(line) ==
    LET n == Span(line, 1, WhiteSpace \cup BulletClass)
    IN  Trim(SubSeq(line, n + 1, Len(line)))

(***************************************************************************)
(* Markup tokens.                                                          *)
(***************************************************************************)
\* `<h${headerLevel}>` and `</h${headerLevel}>`
HeadingOpen(level) ==
    CASE level = 1 -> "<h1>" [] level = 2 -> "<h2>" [] OTHER -> "<h3>"

HeadingClose(level) ==
    CASE level = 1 -> "</h1>" [] level = 2 -> "</h2>" [] OTHER -> "</h3>"

\* a fallback paragraph with no message in it
NoTextFound_Empty == <<"<p>", "</p>">>

\* the value returned by the guard at the entry of convertTextToHTML
NoTextFound == <<"<p>", "No text content found in the PDF.", "</p>">>

\* the value the final return substitutes for empty markup
NoContentExtracted == <<"<p>", "No content could be extracted from the PDF.", "</p>">>

(***************************************************************************)
(* Inputs.                                                                 *)
(***************************************************************************)
\* a missing argument (undefined or null)
Undefined == <<"undefined">>

\* n copies of the character c
Rep(c, n) == [k \in 1..n |-> c]

LineEmpty == <<>>

LineSpaces == <<" ", " ">>

LineChapterOverview ==
    <<"C", "H", "A", "P", "T", "E", "R", " ", "O", "V", "E", "R", "V", "I", "E", "W">>

LineIntroduction ==
    <<"1", ".", " ", "I", "n", "t", "r", "o", "d", "u", "c", "t", "i", "o", "n">>

LineFirstPoint ==
    <<"U+2022", " ", "F", "i", "r", "s", "t", " ", "p", "o", "i", "n", "t">>

LineAmpLt == <<"A", " ", "&", " ", "B", " ", "<", " ", "C">>

LineDashTwo == <<" ", " ", "-", " ", "t", "w", "o", " ">>

LineQuotes == <<"i", "t", "'", "s", " ", "\"", "o", "k", "\"", ">">>

LineA == <<"A">>

\* all capitals, exactly HeaderMaxLen characters
LineCapsAtLimit == Rep("X", HeaderMaxLen)

\* all capitals, one character over HeaderMaxLen
LineCapsOverLimit == Rep("X", HeaderMaxLen + 1)

\* body text more than twice as long as LineCapsOverLimit
LineLongBody == Rep("y", 2 * (HeaderMaxLen + 1) + 1)

\* title case, exactly twice as long as LineAmpLt
LineTitleCase ==
    <<"S", "c", "o", "p", "e", " ", "A", "n", "d", " ", "P", "u", "r", "p", "o", "s", "e", "s">>

LineChapter == <<"C", "h", "a", "p", "t", "e", "r", " ", "1">>

LineRoman == <<"I", "V", ".", " ", "S", "c", "o", "p", "e">>

LineSection == <<"S", "e", "c", "t", "i", "o", "n", " ", "2">>

Corpus ==
    { LineEmpty, LineSpaces, LineChapterOverview, LineIntroduction,
      LineFirstPoint, LineAmpLt, LineDashTwo, LineQuotes, LineA,
      LineCapsAtLimit, LineCapsOverLimit, LineLongBody,
      LineTitleCase, LineChapter, LineRoman, LineSection }

RECURSIVE JoinLines(_)
\* the raw lines with a line break between each two
JoinLines(ls) ==
    IF Len(ls) = 0 THEN <<>>
    ELSE IF Len(ls) = 1 THEN ls[1]
    ELSE ls[1] \o <<"\n">> \o JoinLines(Tail(ls))

Inputs ==
    {Undefined} \cup
    { JoinLines(ls) : ls \in UNION { [1..n -> Corpus] : n \in 0..MaxLines } }

(***************************************************************************)
(* convertTextToHTML as a state machine.                                   *)
(***************************************************************************)
VARIABLES
    text,          \* the argument
    lines,         \* const lines
    html,          \* let html
    inList,        \* let inList
    inParagraph,   \* let inParagraph
    i,             \* the loop counter, counting from 0
    pc,            \* "entry", "loop", "done"
    result,        \* the value returned
    calls,         \* the invocations made by the requests being served
    frames,        \* the locals of the invocations that are running
    conversion,    \* a request to /convert-pdf-to-html being handled
    generation,    \* a call of generatePDF
    resizing       \* a request to /resize-image being handled

\* the argument, the locals and the result of one invocation
call == <<text, lines, html, inList, inParagraph, i, pc, result>>

\* the state of the handlers and of generatePDF
handlers == <<conversion, generation, resizing>>

\* no request is being handled and generatePDF is not running
HandlersIdle == conversion = <<>> /\ generation = <<>> /\ resizing = <<>>

vars == <<text, lines, html, inList, inParagraph, i, pc, result, calls, frames,
          conversion, generation, resizing>>

NoResult == <<"pending">>

Init ==
    /\ text \in Inputs
    /\ lines = <<>>
    /\ html = <<>>
    /\ inList = FALSE
    /\ inParagraph = FALSE
    /\ i = 0
    /\ pc = "entry"
    /\ result = NoResult
    /\ calls = <<>>
    /\ frames = <<>>
    /\ HandlersIdle

\* the entry guard without its second test: !text
IsEmptyText_NoTrim(t) == t = Undefined \/ t = <<>>

\* !text || text.trim() === ''
IsEmptyText(t) == t = Undefined \/ t = <<>> \/ Trim(t) = <<>>

\* a filter that compares the untrimmed line: line !== ''
FilterNonBlank_NoTrim(ls) == SelectSeq(ls, LAMBDA l : l # <<>>)

\* lines.filter(line => line.trim() !== '')
FilterNonBlank(ls) == SelectSeq(ls, LAMBDA l : Trim(l) # <<>>)

\* the guard at the entry returns the "no text" paragraph
EarlyReturn ==
    /\ pc = "entry"
    /\ IsEmptyText(text)
    /\ result' = NoTextFound
    /\ pc' = "done"
    /\ UNCHANGED <<text, lines, html, inList, inParagraph, i, calls, frames, handlers>>

\* split, filter, and the initialisation of html, inList, inParagraph
SplitLines ==
    /\ pc = "entry"
    /\ ~IsEmptyText(text)
    /\ lines' = FilterNonBlank(Split(text))
    /\ html' = <<>>
    /\ inList' = FALSE
    /\ inParagraph' = FALSE
    /\ i' = 0
    /\ pc' = "loop"
    /\ UNCHANGED <<text, result, calls, frames, handlers>>

\* a list opened for every item
OpenListIfNone_Always(l) == <<"<ul>">>

\* what the list-item branch appends to open a list: if (!inList) html += '<ul>'
OpenListIfNone(l) == IF ~l THEN <<"<ul>">> ELSE <<>>

\* the closing of the paragraph without the closing of the list
CloseOpen_ParagraphOnly(p, l) == IF p THEN <<"</p>">> ELSE <<>>

\* the two closing tags in the opposite order
CloseOpen_ListFirst(p, l) ==
    (IF l THEN <<"</ul>">> ELSE <<>>) \o (IF p THEN <<"</p>">> ELSE <<>>)

\* what the blank-line and header branches append to close the open containers
CloseOpen(p, l) ==
    (IF p THEN <<"</p>">> ELSE <<>>) \o (IF l THEN <<"</ul>">> ELSE <<>>)

\* the chain with the list test before the header test
Classify_ListFirst(line, allLines, currentIndex) ==
    IF line = <<>> THEN "blank"
    ELSE IF isListItem(line) THEN "listitem"
    ELSE IF isHeader(line, allLines, currentIndex) THEN "heading"
    ELSE "paragraph"

\* the if / continue chain of the loop body: the first test that holds
\* decides what is done with the line
Classify(line, allLines, currentIndex) ==
    IF line = <<>> THEN "blank"
    ELSE IF isHeader(line, allLines, currentIndex) THEN "heading"
    ELSE IF isListItem(line) THEN "listitem"
    ELSE "paragraph"

\* one iteration of the for loop
LoopBody ==
    /\ pc = "loop"
    /\ i < Len(lines)
    /\ LET line == Trim(lines[i + 1])
           role == Classify(line, lines, i)
       IN  CASE role = "blank" ->
                  /\ html' = html \o CloseOpen(inParagraph, inList)
                  /\ inParagraph' = FALSE
                  /\ inList' = FALSE
             [] role = "heading" ->
                  LET headerLevel == getHeaderLevel(line)
                  IN  /\ html' = html \o CloseOpen(inParagraph, inList)
                                      \o <<HeadingOpen(headerLevel)>>
                                      \o escapeHtml(line)
                                      \o <<HeadingClose(headerLevel)>>
                      /\ inParagraph' = FALSE
                      /\ inList' = FALSE
             [] role = "listitem" ->
                  LET listItem == StripMarker(line)
                  IN  /\ html' = html \o (IF inParagraph THEN <<"</p>">> ELSE <<>>)
                                      \o OpenListIfNone(inList)
                                      \o <<"<li>">> \o escapeHtml(listItem) \o <<"</li>">>
                      /\ inParagraph' = FALSE
                      /\ inList' = TRUE
             [] OTHER ->
                  \* regular paragraph: the list, if one is open, stays open
                  /\ html' = html \o (IF ~inParagraph THEN <<"<p>">> ELSE <<>>)
                                  \o escapeHtml(line) \o <<" ">>
                  /\ inParagraph' = TRUE
                  /\ inList' = inList
    /\ i' = i + 1
    /\ UNCHANGED <<text, lines, pc, result, calls, frames, handlers>>

\* after the loop: close any open tags and return html || the fallback
CloseAndReturn ==
    /\ pc = "loop"
    /\ i >= Len(lines)
    /\ LET closed == html \o CloseOpen(inParagraph, inList)
       IN  /\ html' = closed
           /\ result' = IF closed = <<>> THEN NoContentExtracted ELSE closed
    /\ pc' = "done"
    /\ UNCHANGED <<text, lines, inList, inParagraph, i, calls, frames, handlers>>

Next == EarlyReturn \/ SplitLines \/ LoopBody \/ CloseAndReturn

Spec == Init /\ [][Next]_vars

\* the call is synchronous code: once entered it runs on until it returns
FairSpec == Spec /\ WF_vars(Next)

(***************************************************************************)
(* The same call on short inputs drawn from a wider choice of lines: the   *)
(* letter cases of Chapter and Section, the numbered and lettered list     *)
(* markers, and a line made of markers only.                               *)
(***************************************************************************)
MaxMarkerLines == 2

LineChapterLower == <<"c", "h", "a", "p", "t", "e", "r", " ", "7">>

LineSectionUpper == <<"S", "E", "C", "T", "I", "O", "N", " ", "1", "0">>

LineNumberedItem == <<"1", ".", " ", "i", "t", "e", "m">>

LineLetteredItem == <<"a", ".", " ", "i", "t", "e", "m">>

LineMarkersOnly == <<"-", " ", "-">>

MarkerCorpus ==
    Corpus \cup { LineChapterLower, LineSectionUpper, LineNumberedItem,
                  LineLetteredItem, LineMarkersOnly }

MarkerInputs ==
    { JoinLines(ls) :
        ls \in UNION { [1..n -> MarkerCorpus] : n \in 0..MaxMarkerLines } }

InitLines ==
    /\ text \in MarkerInputs
    /\ lines = <<>>
    /\ html = <<>>
    /\ inList = FALSE
    /\ inParagraph = FALSE
    /\ i = 0
    /\ pc = "entry"
    /\ result = NoResult
    /\ calls = <<>>
    /\ frames = <<>>
    /\ HandlersIdle

SpecLines == InitLines /\ [][Next]_vars

(***************************************************************************)
(* convertTextToHTML as a function of its argument: the same steps, taken  *)
(* on a record of the call's locals.                                       *)
(***************************************************************************)
\* the locals of a call with argument t, at its entry
FrameInit(t) ==
    [text |-> t, lines |-> <<>>, html |-> <<>>, inList |-> FALSE,
     inParagraph |-> FALSE, i |-> 0, pc |-> "entry", result |-> NoResult]

\* one step of the call whose locals are f: the entry guard or the split,
\* one iteration of the loop, or the closing of the open tags and the return
FrameStep(f) ==
    IF f.pc = "entry" THEN
        IF IsEmptyText(f.text)
        THEN [f EXCEPT !.result = NoTextFound, !.pc = "done"]
        ELSE [f EXCEPT !.lines = FilterNonBlank(Split(f.text)),
                       !.html = <<>>, !.inList = FALSE,
                       !.inParagraph = FALSE, !.i = 0, !.pc = "loop"]
    ELSE IF f.pc = "loop" /\ f.i < Len(f.lines) THEN
        LET line == Trim(f.lines[f.i + 1])
            role == Classify(line, f.lines, f.i)
        IN  CASE role = "blank" ->
                   [f EXCEPT !.html = @ \o CloseOpen(f.inParagraph, f.inList),
                             !.inParagraph = FALSE, !.inList = FALSE,
                             !.i = @ + 1]
              [] role = "heading" ->
                   [f EXCEPT !.html = @ \o CloseOpen(f.inParagraph, f.inList)
                                        \o <<HeadingOpen(getHeaderLevel(line))>>
                                        \o escapeHtml(line)
                                        \o <<HeadingClose(getHeaderLevel(line))>>,
                             !.inParagraph = FALSE, !.inList = FALSE,
                             !.i = @ + 1]
              [] role = "listitem" ->
                   [f EXCEPT !.html = @ \o (IF f.inParagraph THEN <<"</p>">> ELSE <<>>)
                                        \o OpenListIfNone(f.inList)
                                        \o <<"<li>">>
                                        \o escapeHtml(StripMarker(line))
                                        \o <<"</li>">>,
                             !.inParagraph = FALSE, !.inList = TRUE,
                             !.i = @ + 1]
              [] OTHER ->
                   [f EXCEPT !.html = @ \o (IF ~f.inParagraph THEN <<"<p>">> ELSE <<>>)
                                        \o escapeHtml(line) \o <<" ">>,
                             !.inParagraph = TRUE,
                             !.i = @ + 1]
    ELSE IF f.pc = "loop" THEN
        LET closed == f.html \o CloseOpen(f.inParagraph, f.inList)
        IN  [f EXCEPT !.html = closed,
                      !.result = IF closed = <<>> THEN NoContentExtracted
                                 ELSE closed,
                      !.pc = "done"]
    ELSE f

RECURSIVE RunFrame(_)
\* the call whose locals are f, run to its return
RunFrame(f) == IF f.pc = "done" THEN f ELSE RunFrame(FrameStep(f))

\* the value convertTextToHTML returns for the argument t
convertTextToHTML(t) == RunFrame(FrameInit(t)).result

\* the locals of the call of Spec, as a record
FrameOfCall ==
    [text |-> text, lines |-> lines, html |-> html, inList |-> inList,
     inParagraph |-> inParagraph, i |-> i, pc |-> pc, result |-> result]

\* every step of Spec is the step FrameStep takes
StepsAreFrameSteps == [][FrameOfCall' = FrameStep(FrameOfCall)]_vars

\* the value Spec returns is the value of the function
ResultIsFunctionValue == pc = "done" => result = convertTextToHTML(text)

(***************************************************************************)
(* Several requests served at once.  Each request that reaches line 686    *)
(* calls convertTextToHTML with the text of its own document; the call's   *)
(* locals live in a frame of its own.  The steps of different calls are    *)
(* interleaved freely here, which includes every order in which the event  *)
(* loop can run them (there a call runs from entry to return without       *)
(* another one stepping in between).                                       *)
(***************************************************************************)
MaxRequests == 2

Requests == 1..MaxRequests

\* the documents' texts, pdfData.text, that the requests may carry
RequestTexts ==
    { Undefined,
      LineSpaces,
      JoinLines(<<LineDashTwo, LineA>>),
      JoinLines(<<LineA, LineChapterOverview, LineAmpLt>>),
      JoinLines(<<LineFirstPoint, LineEmpty, LineIntroduction>>),
      JoinLines(<<LineA, LineEmpty, LineChapterOverview>>),
      JoinLines(<<LineA, LineEmpty>>) }

\* the frame of locals that the call of request r uses, were every call to
\* use the same variables
Slot_Shared(r) == 1

\* the frame of locals that the call of request r uses: one per call
Slot(r) == r

\* a request that is not in a call, and a frame that is not in use
Idle == [pc |-> "idle", text |-> Undefined, result |-> NoResult, overlapped |-> FALSE]

NoFrame == FrameInit(Undefined)

InitInterleaved ==
    /\ text = Undefined
    /\ lines = <<>>
    /\ html = <<>>
    /\ inList = FALSE
    /\ inParagraph = FALSE
    /\ i = 0
    /\ pc = "done"
    /\ result = NoTextFound
    /\ calls = [r \in Requests |-> Idle]
    /\ frames = [r \in Requests |-> NoFrame]
    /\ HandlersIdle

\* the calls of the other requests that are running see a step in between
\* their own
Overlap(cs, r) ==
    [q \in Requests |->
        IF q # r /\ cs[q].pc = "running"
        THEN [cs[q] EXCEPT !.overlapped = TRUE] ELSE cs[q]]

\* request r calls convertTextToHTML(textContent)
CallConvert(r) ==
    /\ calls[r].pc = "idle"
    /\ \E t \in RequestTexts :
          /\ calls' = [Overlap(calls, r) EXCEPT
                          ![r] = [pc |-> "running", text |-> t,
                                  result |-> NoResult, overlapped |-> FALSE]]
          /\ frames' = [frames EXCEPT ![Slot(r)] = FrameInit(t)]
    /\ UNCHANGED <<call, handlers>>

\* the call of request r takes its next step
StepConvert(r) ==
    /\ calls[r].pc = "running"
    /\ frames[Slot(r)].pc # "done"
    /\ frames' = [frames EXCEPT ![Slot(r)] = FrameStep(@)]
    /\ calls' = Overlap(calls, r)
    /\ UNCHANGED <<call, handlers>>

\* the call of request r returns: htmlContent is its value
ReturnConvert(r) ==
    /\ calls[r].pc = "running"
    /\ frames[Slot(r)].pc = "done"
    /\ calls' = [Overlap(calls, r) EXCEPT
                    ![r].pc = "returned",
                    ![r].result = frames[Slot(r)].result]
    /\ frames' = [frames EXCEPT ![Slot(r)] = NoFrame]
    /\ UNCHANGED <<call, handlers>>

\* the response of request r is sent; the next request takes its place
SendResponse(r) ==
    /\ calls[r].pc = "returned"
    /\ calls' = [calls EXCEPT ![r] = Idle]
    /\ UNCHANGED <<frames, call, handlers>>

NextInterleaved ==
    \E r \in Requests :
        \/ CallConvert(r)
        \/ StepConvert(r)
        \/ ReturnConvert(r)
        \/ SendResponse(r)

SpecInterleaved == InitInterleaved /\ [][NextInterleaved]_vars

(***************************************************************************)
(* The handler of POST /convert-pdf-to-html.  It runs up to its await of   *)
(* pdfParse in one step and, when pdfParse settles, to its response in     *)
(* another.                                                                *)
(***************************************************************************)
\* no call of convertTextToHTML is modelled step by step
EngineIdle ==
    /\ text = Undefined
    /\ lines = <<>>
    /\ html = <<>>
    /\ inList = FALSE
    /\ inParagraph = FALSE
    /\ i = 0
    /\ pc = "done"
    /\ result = NoTextFound
    /\ calls = <<>>
    /\ frames = <<>>

\* the lines of the documents that pdfParse extracts text from
DocumentCorpus ==
    { LineEmpty, LineSpaces, LineA, LineDashTwo, LineChapterOverview }

\* pdfData.text: a string, empty for a document without extractable text
DocumentTexts ==
    { JoinLines(ls) :
        ls \in UNION { [1..n -> DocumentCorpus] : n \in 0..MaxLines } }

\* a request as it arrives, with an uploaded file or without one
Arrived(file) ==
    [pc |-> "arrived", file |-> file, extraction |-> "not run",
     textContent |-> Undefined, engineCalled |-> FALSE,
     htmlContent |-> NoResult, status |-> 0]

InitConversion ==
    /\ EngineIdle
    /\ conversion \in {Arrived(file) : file \in BOOLEAN}
    /\ generation = <<>>
    /\ resizing = <<>>

\* if (!req.file) return res.status(400)...; otherwise pdfParse(pdfBuffer)
\* is called and awaited
StartConversion ==
    /\ conversion.pc = "arrived"
    /\ conversion' =
          IF ~conversion.file
          THEN [conversion EXCEPT !.pc = "responded", !.status = 400]
          ELSE [conversion EXCEPT !.pc = "parsing", !.extraction = "running"]
    /\ UNCHANGED <<call, calls, frames, generation, resizing>>

\* pdfParse rejects: the catch clause answers 500
ExtractionFails ==
    /\ conversion.pc = "parsing"
    /\ conversion' = [conversion EXCEPT !.pc = "responded",
                                        !.extraction = "threw",
                                        !.status = 500]
    /\ UNCHANGED <<call, calls, frames, generation, resizing>>

\* pdfParse resolves: textContent = pdfData.text, htmlContent =
\* convertTextToHTML(textContent), and the document is sent
ExtractionSucceeds ==
    /\ conversion.pc = "parsing"
    /\ \E t \in DocumentTexts :
          conversion' = [conversion EXCEPT !.pc = "responded",
                                           !.extraction = "resolved",
                                           !.textContent = t,
                                           !.engineCalled = TRUE,
                                           !.htmlContent = convertTextToHTML(t),
                                           !.status = 200]
    /\ UNCHANGED <<call, calls, frames, generation, resizing>>

NextConversion == StartConversion \/ ExtractionFails \/ ExtractionSucceeds

SpecConversion == InitConversion /\ [][NextConversion]_vars

(***************************************************************************)
(* The handler of POST /resize-image.  It runs up to its await of          *)
(* toBuffer() in one step and, when the encoder settles, to its response   *)
(* in another.                                                             *)
(***************************************************************************)
FormatJpeg == <<"j", "p", "e", "g">>

FormatJpg == <<"j", "p", "g">>

FormatPng == <<"p", "n", "g">>

FormatWebp == <<"w", "e", "b", "p">>

\* the values of the format field of the request body; Undefined when the
\* field is absent
RequestFormats ==
    { Undefined, FormatJpeg, FormatJpg, FormatPng, FormatWebp,
      <<"J", "P", "E", "G">>, <<"J", "p", "g">>, <<"P", "N", "G">>,
      <<"W", "e", "b", "P">>, <<"g", "i", "f">>, <<>> }

\* format.toLowerCase()
toLowerCase(s) == [k \in 1..Len(s) |-> ToLower(s[k])]

\* const { ..., format = 'jpeg' } = req.body
FormatOrDefault(f) == IF f = Undefined THEN FormatJpeg ELSE f

\* the encoder that the switch on format.toLowerCase() selects, "none" for
\* the default case
EncoderOf(format) ==
    LET f == toLowerCase(format)
    IN  CASE f = FormatJpeg \/ f = FormatJpg -> "jpeg"
          [] f = FormatPng -> "png"
          [] f = FormatWebp -> "webp"
          [] OTHER -> "none"

\* const mimeType = format === 'jpeg' || format === 'jpg' ? 'image/jpeg' :
\*                  format === 'png' ? 'image/png' : 'image/webp'
MimeTypeOf(format) ==
    IF format = FormatJpeg \/ format = FormatJpg THEN "image/jpeg"
    ELSE IF format = FormatPng THEN "image/png"
    ELSE "image/webp"

\* a request as it arrives
ArrivedImage(file, width, height, format) ==
    [pc |-> "arrived", file |-> file, width |-> width, height |-> height,
     format |-> FormatOrDefault(format), encoder |-> "none", status |-> 0,
     contentType |-> "none"]

InitResize ==
    /\ EngineIdle
    /\ conversion = <<>>
    /\ generation = <<>>
    /\ resizing \in { ArrivedImage(file, width, height, format) :
                         file \in BOOLEAN, width \in BOOLEAN,
                         height \in BOOLEAN, format \in RequestFormats }

\* the tests of the file and of width and height, the resize, and the switch
\* that starts the encoder or answers 400
StartResize ==
    /\ resizing.pc = "arrived"
    /\ resizing' =
          IF ~resizing.file \/ (~resizing.width /\ ~resizing.height)
             \/ EncoderOf(resizing.format) = "none"
          THEN [resizing EXCEPT !.pc = "responded", !.status = 400]
          ELSE [resizing EXCEPT !.pc = "encoding",
                                !.encoder = EncoderOf(resizing.format)]
    /\ UNCHANGED <<call, calls, frames, conversion, generation>>

\* resize or toBuffer() rejects: the catch clause answers 500
EncodingFails ==
    /\ resizing.pc = "encoding"
    /\ resizing' = [resizing EXCEPT !.pc = "responded", !.status = 500]
    /\ UNCHANGED <<call, calls, frames, conversion, generation>>

\* toBuffer() resolves: the headers are set and the buffer is sent
EncodingSucceeds ==
    /\ resizing.pc = "encoding"
    /\ resizing' = [resizing EXCEPT !.pc = "responded", !.status = 200,
                                    !.contentType = MimeTypeOf(resizing.format)]
    /\ UNCHANGED <<call, calls, frames, conversion, generation>>

NextResize == StartResize \/ EncodingFails \/ EncodingSucceeds

SpecResize == InitResize /\ [][NextResize]_vars

(***************************************************************************)
(* generatePDF.  Each await is the end of a step.  A launch, setContent    *)
(* (with newPage before it) and pdf may each succeed or fail; a failed     *)
(* launch may carry the "Could not find Chrome" message that the catch     *)
(* clause looks for; browser.close() succeeds.                             *)
(***************************************************************************)
\* fallbackStrategies.length
FallbackStrategies == 3

\* chromePaths.length
SystemChromePaths == 4

\* a call of generatePDF at its entry, on Linux or on another platform
Entered(linux) ==
    [pc |-> "launch", linux |-> linux, strategy |-> 0, path |-> 0,
     browser |-> 0, launched |-> 0, closed |-> {}, notFound |-> FALSE,
     outcome |-> "none"]

InitGeneration ==
    /\ EngineIdle
    /\ conversion = <<>>
    /\ resizing = <<>>
    /\ generation \in {Entered(linux) : linux \in BOOLEAN}

\* g after a launch that succeeded: browser = the new instance
Launched(g) ==
    [g EXCEPT !.launched = @ + 1, !.browser = g.launched + 1]

\* browser = await puppeteer.launch(chromeOptions)
LaunchPrimary ==
    /\ generation.pc = "launch"
    /\ \/ generation' = [Launched(generation) EXCEPT !.pc = "content"]
       \/ generation' = [generation EXCEPT !.pc = "fallback"]
    /\ UNCHANGED <<call, calls, frames, conversion, resizing>>

\* one iteration of the loop over fallbackStrategies; the failure of the
\* last strategy is thrown to the outer catch
LaunchFallback ==
    /\ generation.pc = "fallback"
    /\ \/ generation' = [Launched(generation) EXCEPT !.pc = "content"]
       \/ /\ generation.strategy < FallbackStrategies - 1
          /\ generation' = [generation EXCEPT !.strategy = @ + 1]
       \/ /\ generation.strategy = FallbackStrategies - 1
          /\ \E found \in BOOLEAN :
                generation' = [generation EXCEPT !.pc = "catch",
                                                 !.notFound = ~found]
    /\ UNCHANGED <<call, calls, frames, conversion, resizing>>

\* browser.newPage() and page.setContent(htmlContent, ...)
SetContent ==
    /\ generation.pc = "content"
    /\ \/ generation' = [generation EXCEPT !.pc = "pdf"]
       \/ generation' = [generation EXCEPT !.pc = "catch", !.notFound = FALSE]
    /\ UNCHANGED <<call, calls, frames, conversion, resizing>>

\* page.pdf(...) and return pdfBuffer
MakePdf ==
    /\ generation.pc = "pdf"
    /\ \/ generation' = [generation EXCEPT !.pc = "finally",
                                           !.outcome = "buffer"]
       \/ generation' = [generation EXCEPT !.pc = "catch", !.notFound = FALSE]
    /\ UNCHANGED <<call, calls, frames, conversion, resizing>>

\* the catch clause up to the loop over chromePaths, or to its throw
CatchError ==
    /\ generation.pc = "catch"
    /\ generation' =
          IF generation.notFound /\ generation.linux
          THEN [generation EXCEPT !.pc = "system"]
          ELSE [generation EXCEPT !.pc = "finally", !.outcome = "throws"]
    /\ UNCHANGED <<call, calls, frames, conversion, resizing>>

\* g at the continue of the loop over chromePaths: the next path, or, after
\* the last one, the throw at the end of the catch clause
NextPath(g) ==
    IF g.path < SystemChromePaths - 1
    THEN [g EXCEPT !.pc = "system", !.path = @ + 1]
    ELSE [g EXCEPT !.pc = "finally", !.outcome = "throws"]

\* one iteration of the loop over chromePaths up to its launch: `which`
\* fails, or the launch fails, or browser = the new instance
LaunchSystemChrome ==
    /\ generation.pc = "system"
    /\ \/ generation' = NextPath(generation)
       \/ generation' = [Launched(generation) EXCEPT !.pc = "system content"]
    /\ UNCHANGED <<call, calls, frames, conversion, resizing>>

\* newPage and setContent in the loop over chromePaths
SetContentSystemChrome ==
    /\ generation.pc = "system content"
    /\ \/ generation' = [generation EXCEPT !.pc = "system pdf"]
       \/ generation' = NextPath(generation)
    /\ UNCHANGED <<call, calls, frames, conversion, resizing>>

\* page.pdf and return pdfBuffer in the loop over chromePaths
MakePdfSystemChrome ==
    /\ generation.pc = "system pdf"
    /\ \/ generation' = [generation EXCEPT !.pc = "finally",
                                           !.outcome = "buffer"]
       \/ generation' = NextPath(generation)
    /\ UNCHANGED <<call, calls, frames, conversion, resizing>>

\* finally: if (browser) await browser.close(); then the buffer is returned
\* or the error thrown
Finally ==
    /\ generation.pc = "finally"
    /\ generation' =
          [generation EXCEPT
              !.pc = IF generation.outcome = "buffer" THEN "returned"
                     ELSE "threw",
              !.closed = IF generation.browser # 0
                         THEN @ \cup {generation.browser} ELSE @]
    /\ UNCHANGED <<call, calls, frames, conversion, resizing>>

NextGeneration ==
    \/ LaunchPrimary \/ LaunchFallback \/ SetContent \/ MakePdf
    \/ CatchError
    \/ LaunchSystemChrome \/ SetContentSystemChrome \/ MakePdfSystemChrome
    \/ Finally

SpecGeneration == InitGeneration /\ [][NextGeneration]_vars

(***************************************************************************)
(* Vocabulary of the properties.                                           *)
(***************************************************************************)
\* h ends with the tokens of suffix
EndsWith(h, suffix) ==
    /\ Len(h) >= Len(suffix)
    /\ SubSeq(h, Len(h) - Len(suffix) + 1, Len(h)) = suffix

\* sub occurs in h as a run of adjacent tokens
Contains(h, sub) ==
    \E k \in 0..(Len(h) - Len(sub)) : SubSeq(h, k + 1, k + Len(sub)) = sub

\* number of occurrences of the token tok in h
Count(h, tok) == Cardinality({k \in 1..Len(h) : h[k] = tok})

\* position of the last occurrence of the token tok in h, 0 if there is none
LastIndexOf(h, tok) ==
    LET at == {k \in 1..Len(h) : h[k] = tok}
    IN  IF at = {} THEN 0 ELSE CHOOSE k \in at : \A m \in at : m <= k

\* the k-th line of lines (counting from 1) as the loop sees it
LineAt(k) == Trim(lines[k])

\* what the loop does with the k-th line
RoleAt(k) == Classify(LineAt(k), lines, k - 1)

\* the loop has just processed the line LineAt(i)
JustProcessed == pc = "loop" /\ i >= 1

RECURSIVE JoinEscaped(_, _)
\* the escaped lines a..b, a single space between each two
JoinEscaped(a, b) ==
    IF a > b THEN <<>>
    ELSE IF a = b THEN escapeHtml(LineAt(a))
    ELSE escapeHtml(LineAt(a)) \o <<" ">> \o JoinEscaped(a + 1, b)

\* lines a..b are a maximal run of paragraph-text lines
ParagraphRun(a, b) ==
    /\ 1 <= a /\ a <= b /\ b <= Len(lines)
    /\ \A k \in a..b : RoleAt(k) = "paragraph"
    /\ a = 1 \/ RoleAt(a - 1) # "paragraph"
    /\ b = Len(lines) \/ RoleAt(b + 1) # "paragraph"

\* the raw lines of the input, blank ones included
RawLines == IF text = Undefined THEN <<>> ELSE Split(text)

(***************************************************************************)
(* C1.  When a paragraph-text line directly follows a list-item line, the  *)
(* open list is closed before the paragraph is opened: the tokens just     *)
(* before the paragraph's opening tag are the end of the last item and the *)
(* end of the list.                                                        *)
(***************************************************************************)
C1_ListClosedBeforeParagraph ==
    (JustProcessed /\ i >= 2 /\ RoleAt(i - 1) = "listitem" /\ RoleAt(i) = "paragraph")
    => LET p == LastIndexOf(html, "<p>")
       IN  p >= 3 /\ html[p - 2] = "</li>" /\ html[p - 1] = "</ul>"

(***************************************************************************)
(* C2.  The paragraph-open flag and the list-open flag are never both      *)
(* true.                                                                   *)
(***************************************************************************)
C2_FlagsExclusive == ~(inParagraph /\ inList)

(***************************************************************************)
(* C3.  An input made of two paragraph-text lines with one or more blank   *)
(* lines between them yields two paragraph elements, one per line.         *)
(***************************************************************************)
C3_BlankLineSeparatesParagraphs ==
    ( /\ pc = "done"
      /\ Len(lines) = 2
      /\ RoleAt(1) = "paragraph" /\ RoleAt(2) = "paragraph"
      /\ \E a, b \in 1..Len(RawLines) :
            /\ a + 1 < b
            /\ Trim(RawLines[a]) # <<>> /\ Trim(RawLines[b]) # <<>>
            /\ \A k \in (a + 1)..(b - 1) : Trim(RawLines[k]) = <<>> )
    => /\ Count(result, "<p>") = 2
       /\ Count(result, "</p>") = 2
       /\ Contains(result, <<"</p>", "<p>">>)

(***************************************************************************)
(* C4.  Every maximal run of paragraph-text lines is emitted as one        *)
(* paragraph element whose text is the escaped trimmed lines joined by     *)
(* single spaces, with nothing before the first or after the last.         *)
(***************************************************************************)
C4_ParagraphRunJoined ==
    pc = "done" =>
        \A a, b \in 1..Len(lines) :
            ParagraphRun(a, b) =>
                Contains(result, <<"<p>">> \o JoinEscaped(a, b) \o <<"</p>">>)

(***************************************************************************)
(* C5.  A line longer than 100 characters is never emitted as a heading,   *)
(* whether or not it matches a structural pattern and whatever follows it; *)
(* a line of exactly 100 characters that matches a structural pattern is.  *)
(***************************************************************************)
LastEmittedIsHeading ==
    html # <<>> /\ html[Len(html)] \in {"</h1>", "</h2>", "</h3>"}

C5_LongLineNeverHeading ==
    JustProcessed =>
        /\ Len(LineAt(i)) > 100 => ~LastEmittedIsHeading
        /\ (Len(LineAt(i)) = 100 /\ MatchesHeaderPattern(LineAt(i)))
               => LastEmittedIsHeading

\* an all-capitals line of 101 characters, followed by a line more than
\* twice as long, has been emitted as paragraph text
C5_Witness ==
    /\ JustProcessed
    /\ Len(LineAt(i)) = 101
    /\ AllCapsPattern(LineAt(i))
    /\ i < Len(lines) /\ Len(LineAt(i + 1)) > 202
    /\ EndsWith(html, <<"<p>">> \o LineAt(i) \o <<" ">>)

(***************************************************************************)
(* C6.  For input that is missing, empty, or made of blank lines only,     *)
(* the value returned is the fallback paragraph.                           *)
(***************************************************************************)
BlankInput(t) ==
    \/ t = Undefined
    \/ \A k \in 1..Len(Split(t)) : Trim(Split(t)[k]) = <<>>

\* as claimed: the fallback is the "no content could be extracted"
\* paragraph, the one the final return substitutes for empty markup
C6_BlankInputGivesNoContentFallback ==
    (pc = "done" /\ BlankInput(text)) => result = NoContentExtracted

\* as amended: the fallback is the "no text content found" paragraph of the
\* entry guard; it is returned for these inputs and for no other, and the
\* paragraph of the final return is never returned
C6_BlankInputGivesNoTextFallback ==
    pc = "done" =>
        IF BlankInput(text)
        THEN result = NoTextFound /\ html = <<>>
        ELSE result \notin {NoTextFound, NoContentExtracted} /\ result = html

\* an input of several whitespace-only lines has returned the fallback
C6_Witness ==
    /\ pc = "done"
    /\ text # Undefined /\ Len(text) >= 3 /\ Count(text, "\n") >= 1
    /\ BlankInput(text)
    /\ result = NoTextFound

(***************************************************************************)
(* C7.  The text of every heading, paragraph line and list item is emitted *)
(* with each & < > " ' replaced by a character reference, no raw           *)
(* occurrence of these characters is left in the markup, and the tags      *)
(* around the text are emitted as tags.                                    *)
(***************************************************************************)
SpecialChars == {"&", "<", ">", "\"", "'"}

\* the named character references
NamedReference(c) ==
    CASE c = "&"  -> "&amp;"
      [] c = "<"  -> "&lt;"
      [] c = ">"  -> "&gt;"
      [] c = "\"" -> "&quot;"
      [] c = "'"  -> "&apos;"
      [] OTHER    -> c

\* the same, with the numeric reference &#039; for the apostrophe
NamedOrNumericReference(c) == IF c = "'" THEN "&#039;" ELSE NamedReference(c)

\* s with each character replaced by its named reference
WithNamedReferences(s) == [k \in 1..Len(s) |-> NamedReference(s[k])]

\* s with each character replaced by its named reference, &#039; for '
WithReferences(s) == [k \in 1..Len(s) |-> NamedOrNumericReference(s[k])]

\* the line just processed has been appended as its element: lineText
\* between heading tags or followed by the paragraph's space, or itemText
\* between list-item tags
LeafEmitted(lineText, itemText) ==
    CASE RoleAt(i) = "heading" ->
            \E level \in 1..3 :
                EndsWith(html, <<HeadingOpen(level)>> \o lineText
                                   \o <<HeadingClose(level)>>)
      [] RoleAt(i) = "listitem" ->
            EndsWith(html, <<"<li>">> \o itemText \o <<"</li>">>)
      [] OTHER ->
            EndsWith(html, lineText \o <<" ">>)

NoRawSpecialChar == \A k \in 1..Len(html) : html[k] \notin SpecialChars

\* as claimed: every one of the five is replaced by its named reference
C7_EscapedWithNamedReferences ==
    JustProcessed =>
        /\ LeafEmitted(WithNamedReferences(LineAt(i)),
                       WithNamedReferences(StripMarker(LineAt(i))))
        /\ NoRawSpecialChar

\* as amended: the apostrophe is replaced by the numeric reference &#039;
C7_EscapedWithReferences ==
    JustProcessed =>
        /\ LeafEmitted(WithReferences(LineAt(i)),
                       WithReferences(StripMarker(LineAt(i))))
        /\ NoRawSpecialChar

\* the line A & B < C has been emitted as A &amp; B &lt; C, after a line
\* whose apostrophe was emitted as &#039;
C7_Witness ==
    /\ JustProcessed
    /\ LineAt(i) = LineAmpLt
    /\ EndsWith(html, <<"A", " ", "&amp;", " ", "B", " ", "&lt;", " ", "C", " ">>)
    /\ Count(html, "&#039;") = 1

(***************************************************************************)
(* C8.  A line of at most 100 characters made of capital letters and       *)
(* spaces only is emitted as a level 1 heading, whatever its neighbours.   *)
(***************************************************************************)
OnlyCapitalsAndSpaces(s) ==
    Len(s) >= 1 /\ \A k \in 1..Len(s) : s[k] \in Upper \cup {" "}

EmittedAsHeading(level) ==
    EndsWith(html, <<HeadingOpen(level)>> \o escapeHtml(LineAt(i))
                       \o <<HeadingClose(level)>>)

\* as claimed: any such line, a single capital letter included
C8_AllCapsIsLevelOne ==
    (JustProcessed /\ Len(LineAt(i)) <= 100 /\ OnlyCapitalsAndSpaces(LineAt(i)))
    => EmittedAsHeading(1)

\* as amended: any such line of at least two characters
C8_AllCapsOfTwoOrMoreIsLevelOne ==
    ( /\ JustProcessed
      /\ Len(LineAt(i)) >= 2 /\ Len(LineAt(i)) <= 100
      /\ OnlyCapitalsAndSpaces(LineAt(i)) )
    => EmittedAsHeading(1)

\* CHAPTER OVERVIEW has been emitted as <h1>, between two other lines
C8_Witness ==
    /\ JustProcessed
    /\ i >= 2 /\ i < Len(lines)
    /\ LineAt(i) = LineChapterOverview
    /\ EmittedAsHeading(1)

(***************************************************************************)
(* C9.  A line of at most 100 characters that begins with digits, a full   *)
(* stop, whitespace and a capital letter is emitted as a level 2 heading,  *)
(* whatever its neighbours, and never as a list item.                      *)
(***************************************************************************)
NumberedSectionForm(s) ==
    \E d \in 1..Len(s) :
        /\ \A k \in 1..d : s[k] \in Digit
        /\ d < Len(s) /\ s[d + 1] = "."
        /\ \E w \in 1..(Len(s) - d - 1) :
              /\ \A k \in (d + 2)..(d + w + 1) : s[k] \in {" ", "\t"}
              /\ d + w + 2 <= Len(s) /\ s[d + w + 2] \in Upper

C9_NumberedSectionIsLevelTwo ==
    (JustProcessed /\ Len(LineAt(i)) <= 100 /\ NumberedSectionForm(LineAt(i)))
    => /\ EmittedAsHeading(2)
       /\ html[Len(html)] # "</li>"

\* 1. Introduction has been emitted as <h2>, between a paragraph line and
\* another line
C9_Witness ==
    /\ JustProcessed
    /\ i >= 2 /\ RoleAt(i - 1) = "paragraph"
    /\ i < Len(lines)
    /\ LineAt(i) = LineIntroduction
    /\ EndsWith(html, <<" ", "</p>", "<h2>">> \o LineIntroduction \o <<"</h2>">>)

(***************************************************************************)
(* C10.  A line that begins with the bullet glyph followed by whitespace,  *)
(* and that is not taken for a heading, is emitted as a list item whose    *)
(* text is the line without the glyph and the whitespace after it.         *)
(***************************************************************************)
C10_BulletLineIsListItem ==
    ( /\ JustProcessed
      /\ Len(LineAt(i)) >= 2
      /\ LineAt(i)[1] = Bullet /\ LineAt(i)[2] \in WhiteSpace
      /\ RoleAt(i) # "heading" )
    => EndsWith(html, <<"<li>">> \o escapeHtml(Trim(Tail(LineAt(i)))) \o <<"</li>">>)

(***************************************************************************)
(* C11.  A non-blank line that matches no structural heading pattern and   *)
(* no list-marker pattern is emitted as paragraph text.                    *)
(***************************************************************************)
\* the line just processed was appended to a paragraph
EmittedAsParagraphText == EndsWith(html, escapeHtml(LineAt(i)) \o <<" ">>)

\* the line just processed is at most 100 characters long and the next
\* line is more than twice as long
DensityRuleApplies ==
    /\ Len(LineAt(i)) <= 100
    /\ i < Len(lines)
    /\ Len(LineAt(i + 1)) > 2 * Len(LineAt(i))

\* as claimed: whatever the neighbouring lines
C11_NoPatternIsParagraph ==
    ( /\ JustProcessed
      /\ ~MatchesHeaderPattern(LineAt(i))
      /\ ~isListItem(LineAt(i)) )
    => EmittedAsParagraphText

\* as amended: unless the density rule makes the line a heading
C11_NoPatternNoDensityIsParagraph ==
    ( /\ JustProcessed
      /\ ~MatchesHeaderPattern(LineAt(i))
      /\ ~isListItem(LineAt(i))
      /\ ~DensityRuleApplies )
    => EmittedAsParagraphText

\* A & B < C, followed by a line exactly twice as long, has been emitted as
\* paragraph text after a heading
C11_Witness ==
    /\ JustProcessed
    /\ i >= 2 /\ RoleAt(i - 1) = "heading"
    /\ LineAt(i) = LineAmpLt
    /\ i < Len(lines) /\ Len(LineAt(i + 1)) = 2 * Len(LineAt(i))
    /\ EndsWith(html, <<"<p>">> \o escapeHtml(LineAmpLt) \o <<" ">>)

(***************************************************************************)
(* C18.  The tests are made in the order blank, heading, list item,        *)
(* paragraph and the first that holds decides: a line that passes both the *)
(* heading test and the list-marker test is emitted as a heading.          *)
(***************************************************************************)
EmittedAsListItem ==
    EndsWith(html, <<"<li>">> \o escapeHtml(StripMarker(LineAt(i))) \o <<"</li>">>)

C18_FirstMatchWins ==
    JustProcessed =>
        LET line == LineAt(i)
            header == isHeader(line, lines, i - 1)
            item == isListItem(line)
        IN  /\ line # <<>>
            /\ header => LastEmittedIsHeading
            /\ (~header /\ item) => EmittedAsListItem
            /\ (~header /\ ~item) => EmittedAsParagraphText

\* a line that passes both tests has been emitted as a heading, not as an item
C18_Witness ==
    /\ JustProcessed
    /\ isHeader(LineAt(i), lines, i - 1) /\ isListItem(LineAt(i))
    /\ ~MatchesHeaderPattern(LineAt(i))
    /\ LastEmittedIsHeading
    /\ Count(html, "<li>") = 0

(***************************************************************************)
(* C19.  Density rule: a line of length L <= 100 that matches no           *)
(* structural pattern is emitted as a heading if and only if a next line   *)
(* exists and is longer than 2 * L.                                        *)
(***************************************************************************)
C19_DensityRule ==
    ( /\ JustProcessed
      /\ Len(LineAt(i)) <= 100
      /\ ~MatchesHeaderPattern(LineAt(i)) )
    => ( LastEmittedIsHeading
            <=> (i < Len(lines) /\ Len(LineAt(i + 1)) > 2 * Len(LineAt(i))) )

\* a line followed by a line exactly twice as long was not emitted as a
\* heading, and that next line, the last of the input, was not either
C19_Witness ==
    /\ JustProcessed
    /\ i >= 2 /\ i = Len(lines)
    /\ ~MatchesHeaderPattern(LineAt(i - 1)) /\ ~MatchesHeaderPattern(LineAt(i))
    /\ Len(LineAt(i)) = 2 * Len(LineAt(i - 1))
    /\ Count(html, "<h3>") = 0
    /\ ~LastEmittedIsHeading

(***************************************************************************)
(* C20.  A line of at most 100 characters that matches one of the six      *)
(* structural patterns is emitted as a heading, whether a next line exists *)
(* or not and whatever its length.                                         *)
(***************************************************************************)
C20_StructuralPatternIsHeading ==
    ( /\ JustProcessed
      /\ Len(LineAt(i)) <= 100
      /\ \/ AllCapsPattern(LineAt(i))
         \/ ChapterPattern(LineAt(i))
         \/ NumberedPattern(LineAt(i))
         \/ RomanPattern(LineAt(i))
         \/ SectionPattern(LineAt(i))
         \/ TitleCasePattern(LineAt(i)) )
    => LastEmittedIsHeading

\* a Chapter line, a Roman-numbered line and, last of the input, a title
\* case line have each been emitted as a heading
C20_Witness ==
    /\ JustProcessed
    /\ i = 3 /\ i = Len(lines)
    /\ ChapterPattern(LineAt(1)) /\ RomanPattern(LineAt(2)) /\ TitleCasePattern(LineAt(3))
    /\ html = <<"<h1>">> \o LineAt(1) \o <<"</h1>", "<h2>">> \o LineAt(2)
                \o <<"</h2>", "<h3>">> \o LineAt(3) \o <<"</h3>">>

(***************************************************************************)
(* C13  The returned markup is well-formed.                                *)
(***************************************************************************)
OpeningTags == {"<p>", "<ul>", "<li>", "<h1>", "<h2>", "<h3>"}

\* the closing tag of an opening tag
ClosingTagOf(t) ==
    CASE t = "<p>" -> "</p>"
      [] t = "<ul>" -> "</ul>"
      [] t = "<li>" -> "</li>"
      [] t = "<h1>" -> "</h1>"
      [] t = "<h2>" -> "</h2>"
      [] t = "<h3>" -> "</h3>"

ClosingTags == {ClosingTagOf(t) : t \in OpeningTags}

\* the tags of h, in order, without the text between them
TagsOf(h) == SelectSeq(h, LAMBDA t : t \in OpeningTags \cup ClosingTags)

Mismatched == <<"mismatched">>

RECURSIVE OpenElements(_, _)
\* the elements still open after the tags, innermost last, starting from the
\* open elements of stack; Mismatched when a closing tag does not close the
\* innermost open element
OpenElements(tags, stack) ==
    IF tags = <<>> THEN stack
    ELSE IF Head(tags) \in OpeningTags
         THEN OpenElements(Tail(tags), Append(stack, Head(tags)))
    ELSE IF stack # <<>> /\ Head(tags) = ClosingTagOf(stack[Len(stack)])
         THEN OpenElements(Tail(tags), SubSeq(stack, 1, Len(stack) - 1))
    ELSE Mismatched

WellFormed(h) == OpenElements(TagsOf(h), <<>>) = <<>>

\* C13: for every input the returned markup is well-formed: every opening
\* tag has its closing tag, tags close in last-opened-first-closed order,
\* and no paragraph or list is open at the end
C13_MarkupWellFormed == pc = "done" => WellFormed(result)

\* a paragraph was opened inside an open list, and both are closed at the
\* end of the input
C13_Witness ==
    /\ pc = "done"
    /\ Contains(result, <<"</li>", "<p>">>)
    /\ EndsWith(result, <<"</p>", "</ul>">>)

(***************************************************************************)
(* C15  No empty paragraph and no empty list.                              *)
(***************************************************************************)
\* the paragraph opened at position k of the result starts with the text of
\* a line of the input that the loop took as paragraph text
ParagraphHoldsLine(k) ==
    \E j \in 1..Len(lines) :
        /\ RoleAt(j) = "paragraph"
        /\ LET e == escapeHtml(LineAt(j)) \o <<" ">>
           IN  /\ k + Len(e) <= Len(result)
               /\ SubSeq(result, k + 1, k + Len(e)) = e

\* the list opened at position k of the result starts with a list item
ListHoldsItem(k) == k < Len(result) /\ result[k + 1] = "<li>"

\* the result is one paragraph around a fixed message, returned for an input
\* with no non-blank line
IsFallbackParagraph ==
    /\ BlankInput(text)
    /\ Len(result) = 3
    /\ result[1] = "<p>"
    /\ result[2] \notin OpeningTags \cup ClosingTags
    /\ result[3] = "</p>"

\* C15 as stated: every paragraph of the result holds the text of at least
\* one input line and every list holds at least one list item
C15_EveryContainerHoldsLine ==
    pc = "done" =>
        \A k \in 1..Len(result) :
            /\ result[k] = "<p>" => ParagraphHoldsLine(k)
            /\ result[k] = "<ul>" => ListHoldsItem(k)

\* C15 amended: every paragraph of the result holds the text of at least one
\* input line, or is the fallback paragraph with its message when the input
\* has no non-blank line; every list holds at least one list item
C15_NoEmptyContainer ==
    pc = "done" =>
        \A k \in 1..Len(result) :
            /\ result[k] = "<p>" => ParagraphHoldsLine(k) \/ IsFallbackParagraph
            /\ result[k] = "<ul>" => ListHoldsItem(k)

\* a result with a list and a paragraph built from input lines
C15_Witness ==
    /\ pc = "done"
    /\ ~BlankInput(text)
    /\ Count(result, "<p>") >= 1
    /\ Count(result, "<ul>") >= 1

(***************************************************************************)
(* C14  One element per non-blank line, in input order.                    *)
(***************************************************************************)
\* the non-blank lines of the input, trimmed, in input order
NonBlankLines ==
    SelectSeq([k \in 1..Len(RawLines) |-> Trim(RawLines[k])],
              LAMBDA l : l # <<>>)

\* what the k-th of the lines ls contributes: a heading element, a list item
\* element, or its text followed by a space inside a paragraph
Contribution(ls, k) ==
    LET role == Classify(ls[k], ls, k - 1)
    IN  CASE role = "heading" ->
                <<HeadingOpen(getHeaderLevel(ls[k]))>> \o escapeHtml(ls[k])
                    \o <<HeadingClose(getHeaderLevel(ls[k]))>>
          [] role = "listitem" ->
                <<"<li>">> \o escapeHtml(StripMarker(ls[k])) \o <<"</li>">>
          [] OTHER -> escapeHtml(ls[k]) \o <<" ">>

RECURSIVE Contributions(_, _)
\* the contributions of the lines k.. of ls, in order
Contributions(ls, k) ==
    IF k > Len(ls) THEN <<>>
    ELSE Contribution(ls, k) \o Contributions(ls, k + 1)

ContainerTags == {"<p>", "</p>", "<ul>", "</ul>"}

\* the markup h without the tags of its paragraphs and lists
WithoutContainers(h) == SelectSeq(h, LAMBDA t : t \notin ContainerTags)

\* every piece of text of h directly follows an opening tag other than
\* <ul>, or more text: none stands outside the elements
TextInsideElements(h) ==
    \A k \in 1..Len(h) :
        h[k] \notin OpeningTags \cup ClosingTags =>
            /\ k > 1
            /\ h[k - 1] \notin ClosingTags \cup {"<ul>"}

\* C14: every non-blank input line contributes its text to exactly one
\* emitted element, blank lines contribute nothing, and the elements appear
\* in the order of their lines
C14_OneElementPerLineInOrder ==
    pc = "done" /\ ~BlankInput(text) =>
        /\ WithoutContainers(result) = Contributions(NonBlankLines, 1)
        /\ TextInsideElements(result)

\* an input with a blank line between non-blank ones, giving a list item
\* and a paragraph
C14_Witness ==
    /\ pc = "done"
    /\ Len(NonBlankLines) >= 2
    /\ \E k \in 2..(Len(RawLines) - 1) : Trim(RawLines[k]) = <<>>
    /\ Count(result, "<li>") >= 1
    /\ Count(result, "<p>") >= 1

(***************************************************************************)
(* C12  Round trip through the plain text of the blocks.                   *)
(***************************************************************************)
\* the opening tags of the blocks: headings, list items, paragraphs
BlockTags == OpeningTags \ {"<ul>"}

\* the markup h with its tags stripped: the text of each block on a line of
\* its own
PlainText(h) ==
    LET kept == SelectSeq(h, LAMBDA t : t \notin OpeningTags \cup {"</ul>"})
    IN  [k \in 1..Len(kept) |->
            IF kept[k] \in ClosingTags THEN "\n" ELSE kept[k]]

\* the blocks of the markup h: their kinds (with the heading level) and
\* their texts without the white space around them, in order
Blocks(h) ==
    LET ls == Split(PlainText(h))
    IN  [kinds |-> SelectSeq(h, LAMBDA t : t \in BlockTags),
         texts |-> [k \in 1..(Len(ls) - 1) |-> Trim(ls[k])]]

\* the argument holds none of the characters that escapeHtml replaces
NoSpecialChars(t) == \A k \in 1..Len(t) : t[k] \notin SpecialChars

\* the blocks of a second run, on the plain text of the blocks of the result
BlocksOfSecondRun == Blocks(convertTextToHTML(PlainText(result)))

\* C12 as stated: for every input without & < > " ', the second run yields
\* the same sequence of blocks as the first
C12_RoundTrip ==
    pc = "done" /\ NoSpecialChars(text) => BlocksOfSecondRun = Blocks(result)

\* the first run emitted no list item, and no paragraph made of the text of
\* more than one line
OneLinePerBlockWithoutItems ==
    /\ \A k \in 1..Len(lines) : RoleAt(k) # "listitem"
    /\ \A k \in 1..(Len(lines) - 1) :
          ~(RoleAt(k) = "paragraph" /\ RoleAt(k + 1) = "paragraph")

\* C12 amended: for every input without & < > " ' for which the first run
\* emits no list item and no paragraph joined from several lines, the second
\* run yields the same sequence of blocks as the first
C12_RoundTripOfSingleLineBlocks ==
    pc = "done" /\ NoSpecialChars(text) /\ OneLinePerBlockWithoutItems =>
        BlocksOfSecondRun = Blocks(result)

\* a first run that emitted a heading and then a paragraph of one line
C12_Witness ==
    /\ pc = "done"
    /\ NoSpecialChars(text)
    /\ OneLinePerBlockWithoutItems
    /\ Len(lines) >= 2
    /\ \E k \in 1..(Len(lines) - 1) :
          RoleAt(k) = "heading" /\ RoleAt(k + 1) = "paragraph"

(***************************************************************************)
(* C16  Termination with non-empty markup, in one forward pass.            *)
(***************************************************************************)
\* a line standing for one the step must not read
MaskedLine == <<"masked">>

\* the locals of the call, with every line hidden but the current one and
\* the one after it
FrameWithLookaheadOne ==
    [FrameOfCall EXCEPT
        !.lines = [k \in 1..Len(lines) |->
                      IF k = i + 1 \/ k = i + 2 THEN lines[k] ELSE MaskedLine]]

\* a step of the loop advances by one line, and what it appends and the
\* flags it sets are decided by the current line and the next one alone
ForwardPassStep ==
    pc = "loop" /\ pc' = "loop" =>
        /\ i' = i + 1
        /\ lines' = lines
        /\ LET f == FrameStep(FrameWithLookaheadOne)
           IN  /\ html' = f.html
               /\ inList' = f.inList
               /\ inParagraph' = f.inParagraph

\* the number of steps the call can still take, at most
StepsLeft ==
    CASE pc = "entry" -> Len(RawLines) + 2
      [] pc = "loop" -> Len(lines) - i + 1
      [] OTHER -> 0

\* the guard of EarlyReturn, SplitLines, LoopBody or CloseAndReturn holds
CanStep ==
    \/ pc = "entry" /\ IsEmptyText(text)
    \/ pc = "entry" /\ ~IsEmptyText(text)
    \/ pc = "loop" /\ i < Len(lines)
    \/ pc = "loop" /\ i >= Len(lines)

\* the call has returned non-empty markup, having gone through every
\* non-blank line of the input
ReturnedMarkup ==
    /\ pc = "done"
    /\ result # NoResult
    /\ Len(result) > 0
    /\ i = Len(lines)
    /\ text # Undefined => Len(lines) = Len(NonBlankLines) \/ BlankInput(text)

\* C16: for every string input the call terminates and returns non-empty
\* markup, and it processes each non-blank line exactly once in a single
\* forward pass with a lookahead of at most one line
\* (termination: a call that has not returned can take a step, every step
\* lowers StepsLeft, which is never negative, and FairSpec keeps the call
\* running)
C16_TerminatesInOneForwardPass ==
    /\ [](pc = "done" \/ CanStep)
    /\ [](StepsLeft >= 0)
    /\ [](pc = "done" => ReturnedMarkup)
    /\ [][StepsLeft' < StepsLeft /\ ForwardPassStep]_vars

\* under FairSpec the call returns
Terminates == <>ReturnedMarkup

\* the call has returned after a pass over as many lines as the bound allows
C16_Witness ==
    /\ ReturnedMarkup
    /\ Len(lines) = MaxLines
    /\ i = MaxLines

(***************************************************************************)
(* C17  The result of a call depends on that call's argument alone.        *)
(***************************************************************************)
\* C17: with the calls of several requests interleaved, or run one after
\* another in any order, each call returns what it returns when run alone
C17_ResultDependsOnOwnInput ==
    \A r \in Requests :
        calls[r].pc = "returned" =>
            calls[r].result = convertTextToHTML(calls[r].text)

\* a call has returned markup built from its lines after the call of
\* another request, with another text, took steps in between its own
C17_Witness ==
    \E r, q \in Requests :
        /\ r # q
        /\ calls[r].pc = "returned"
        /\ calls[r].overlapped
        /\ Count(calls[r].result, "<li>") >= 1
        /\ calls[q].pc = "running"
        /\ calls[q].text # calls[r].text
        /\ frames[Slot(q)].pc = "loop"
        /\ frames[Slot(q)].i >= 1

(***************************************************************************)
(* C21  The level of a heading.                                            *)
(***************************************************************************)
\* the level as stated: the level 1 patterns first, then the level 2
\* patterns, 3 otherwise
StatedLevel(line) ==
    IF AllCapsPattern(line) \/ ChapterPattern(line) THEN 1
    ELSE IF NumberedPattern(line) \/ RomanPattern(line) \/ SectionPattern(line)
         THEN 2
    ELSE 3

\* C21: every heading is emitted at level 1 for an all-caps or Chapter
\* line, 2 for a numbered, Roman-numbered or Section line, 3 otherwise, the
\* level 1 patterns winning over the level 2 patterns
C21_LevelOfHeading ==
    (JustProcessed /\ RoleAt(i) = "heading") =>
        /\ getHeaderLevel(LineAt(i)) \in {1, 2, 3}
        /\ EmittedAsHeading(StatedLevel(LineAt(i)))

\* a Chapter line in lower case and then a Section line in upper case have
\* been emitted as headings of level 1 and 2
C21_Witness ==
    /\ pc = "done"
    /\ result = <<"<h1>">> \o LineChapterLower \o <<"</h1>", "<h2>">>
                    \o LineSectionUpper \o <<"</h2>">>

(***************************************************************************)
(* C22  The density rule assigns no level of its own.                      *)
(***************************************************************************)
\* C22: a line that is a heading by the density rule is emitted at level 3
\* when no structural pattern matches it, and at the level of its pattern
\* when one does
C22_DensityKeepsPatternLevel ==
    (JustProcessed /\ RoleAt(i) = "heading" /\ DensityRuleApplies) =>
        IF MatchesHeaderPattern(LineAt(i))
        THEN EmittedAsHeading(StatedLevel(LineAt(i)))
        ELSE EmittedAsHeading(3)

\* a line that no pattern matches, neither a heading pattern nor a list
\* marker, was emitted as a level 3 heading by the density rule
C22_Witness ==
    /\ JustProcessed
    /\ DensityRuleApplies
    /\ ~MatchesHeaderPattern(LineAt(i))
    /\ ~isListItem(LineAt(i))
    /\ EmittedAsHeading(3)

(***************************************************************************)
(* C23  Numbered and lettered list markers.                                *)
(***************************************************************************)
\* the line without its marker (digits and '.', or one lower-case letter
\* and '.') and the white space after it
TextAfterMarker(line) ==
    LET d == Span(line, 1, Digit)
        n == IF d >= 1 THEN d + 1 ELSE 2
    IN  Trim(SubSeq(line, n + 1, Len(line)))

\* C23: a line that is a list item by its digits-and-'.' or letter-and-'.'
\* marker is emitted as a list item whose text is the line without that
\* marker and the white space after it
C23_NumberedMarkerStripped ==
    ( /\ JustProcessed
      /\ RoleAt(i) = "listitem"
      /\ NumberedItemPattern(LineAt(i)) \/ LetteredItemPattern(LineAt(i)) )
    => EndsWith(html, <<"<li>">> \o escapeHtml(TextAfterMarker(LineAt(i)))
                          \o <<"</li>">>)

(***************************************************************************)
(* C28  The text of a list item.                                           *)
(***************************************************************************)
\* C28: every list item emitted has at least one character of text
C28_ListItemTextNonEmpty ==
    \A k \in 1..(Len(html) - 1) : html[k] = "<li>" => html[k + 1] # "</li>"

(***************************************************************************)
(* C24  A heading is emitted outside every container.                      *)
(***************************************************************************)
\* the step of the loop that processes the line lines[i + 1]
LoopStep == pc = "loop" /\ pc' = "loop"

\* C24: on a heading line the open paragraph and the open list are closed
\* first, then the heading is emitted with no element open around it, and
\* no container is open afterwards
C24_HeadingOutsideContainers ==
    [][ (LoopStep /\ RoleAt(i + 1) = "heading") =>
          LET line == LineAt(i + 1)
              level == getHeaderLevel(line)
              closed == html \o (IF inParagraph THEN <<"</p>">> ELSE <<>>)
                             \o (IF inList THEN <<"</ul>">> ELSE <<>>)
          IN  /\ html' = closed \o <<HeadingOpen(level)>> \o escapeHtml(line)
                                \o <<HeadingClose(level)>>
              /\ OpenElements(TagsOf(closed), <<>>) = <<>>
              /\ ~inParagraph' /\ ~inList'
      ]_vars

\* a heading has been emitted after the closing of a paragraph that stood
\* in an open list
C24_Witness ==
    /\ JustProcessed
    /\ RoleAt(i) = "heading"
    /\ LET n == Len(escapeHtml(LineAt(i))) + 2
       IN  /\ Len(html) > n
           /\ EndsWith(SubSeq(html, 1, Len(html) - n), <<"</p>", "</ul>">>)

(***************************************************************************)
(* C25  The items of consecutive list-item lines stand in one list.        *)
(***************************************************************************)
\* C25: on a list-item line the open paragraph is closed first, a list is
\* opened only when none is open, and the item is appended; the item then
\* stands directly in one list, which is the only element open
C25_ItemsInOneList ==
    [][ (LoopStep /\ RoleAt(i + 1) = "listitem") =>
          LET item == <<"<li>">> \o escapeHtml(StripMarker(LineAt(i + 1)))
                          \o <<"</li>">>
          IN  /\ html' = html \o (IF inParagraph THEN <<"</p>">> ELSE <<>>)
                              \o (IF inList THEN <<>> ELSE <<"<ul>">>)
                              \o item
              /\ OpenElements(TagsOf(html'), <<>>) = <<"<ul>">>
              /\ (i >= 1 /\ RoleAt(i) = "listitem") =>
                    EndsWith(html', <<"</li>">> \o item)
              /\ inList' /\ ~inParagraph'
      ]_vars

\* three consecutive list-item lines have given one list of three items
C25_Witness ==
    /\ pc = "done"
    /\ Len(lines) = 3
    /\ \A k \in 1..3 : RoleAt(k) = "listitem"
    /\ Count(result, "<ul>") = 1
    /\ Count(result, "<li>") = 3

(***************************************************************************)
(* C26  The role of a line and the line that follows it.                   *)
(***************************************************************************)
\* the role, and for a heading the level, that a call with the argument t
\* gives to the k-th line of t, blank lines counted
RoleOfSourceLine(t, k) ==
    LET raw == Split(t)
        line == Trim(raw[k])
        kept == FilterNonBlank(raw)
        at == Cardinality({m \in 1..k : Trim(raw[m]) # <<>>})
        role == Classify(line, kept, at - 1)
    IN  IF role = "heading" THEN <<role, getHeaderLevel(line)>> ELSE <<role>>

\* the line that follows the k-th line of t in t, blank or not
FollowingSourceLine(t, k) ==
    IF k < Len(Split(t)) THEN <<Split(t)[k + 1]>> ELSE <<>>

\* the calls of the requests r and q have arguments that are strings
BothCalled(r, q) ==
    /\ calls[r].pc # "idle" /\ calls[r].text # Undefined
    /\ calls[q].pc # "idle" /\ calls[q].text # Undefined

\* C26: two inputs that agree on a line and on the line immediately after
\* it give that line the same role and heading level, whatever their other
\* lines are
C26_RoleDependsOnAdjacentLine ==
    \A r, q \in Requests :
        BothCalled(r, q) =>
            \A k \in 1..Len(Split(calls[r].text)) :
                \A j \in 1..Len(Split(calls[q].text)) :
                    ( /\ Split(calls[r].text)[k] = Split(calls[q].text)[j]
                      /\ FollowingSourceLine(calls[r].text, k)
                            = FollowingSourceLine(calls[q].text, j) )
                    => RoleOfSourceLine(calls[r].text, k)
                            = RoleOfSourceLine(calls[q].text, j)

(***************************************************************************)
(* C27  Extraction failures and the engine.                                *)
(***************************************************************************)
\* the extraction failed: pdfParse threw, or it produced no text
ExtractionFailed ==
    \/ conversion.extraction = "threw"
    \/ conversion.extraction = "resolved" /\ conversion.textContent = <<>>

\* C27: a failed extraction is answered with an error without the engine
\* being invoked, the engine is invoked only after an extraction that
\* succeeded, and a request without a file is answered 400 without
\* extraction
C27_ExtractionFailureReportedBeforeEngine ==
    /\ (conversion.pc = "responded" /\ ExtractionFailed) =>
            conversion.status >= 400 /\ ~conversion.engineCalled
    /\ conversion.engineCalled =>
            conversion.extraction = "resolved" /\ ~ExtractionFailed
    /\ (conversion.pc = "responded" /\ ~conversion.file) =>
            conversion.status = 400 /\ conversion.extraction = "not run"

(***************************************************************************)
(* C30  The Content-Type of a resized image.                               *)
(***************************************************************************)
\* the media type that names the format of an encoder
MediaTypeOfEncoder(encoder) ==
    CASE encoder = "jpeg" -> "image/jpeg"
      [] encoder = "png" -> "image/png"
      [] encoder = "webp" -> "image/webp"

\* C30: for every request that is accepted and answered with an image, the
\* Content-Type names the format of the encoder that produced the body,
\* whatever the letter case of the format parameter
C30_ContentTypeNamesEncoder ==
    (resizing.pc = "responded" /\ resizing.status = 200) =>
        resizing.contentType = MediaTypeOfEncoder(resizing.encoder)

(***************************************************************************)
(* C29  The browsers that generatePDF launches.                            *)
(***************************************************************************)
\* C29: when generatePDF has returned a buffer or thrown, every browser
\* instance it launched has been closed
C29_EveryBrowserClosed ==
    generation.pc \in {"returned", "threw"} =>
        \A b \in 1..generation.launched : b \in generation.closed

====
